---- MODULE Spec2Model ----
(***************************************************************************)
(* Model of the helper package: canonical normalisation of nested data     *)
(* (helper/data_format.py, data_standardization), the content identifiers  *)
(* derived from it (helper/data_id.py, convert_data_to_id), and the        *)
(* grouping of co-occurring values (helper/utils.py,                       *)
(* find_edges_connections).                                                *)
(*                                                                         *)
(* Python values are records with the same five fields whatever their     *)
(* type:                                                                   *)
(*    k   type(v).__name__                                                 *)
(*    n   the number of an int, of a bool (0/1), of a float (in halves:    *)
(*        n = 3 is 1.5) and of a datetime (datetime(2021, 9, n))           *)
(*    s   the characters of a str or the bytes of a bytes, as code points  *)
(*    ks  the keys of a dict in insertion order (each a str's code points) *)
(*    e   the elements of a list or tuple, or the values of a dict in      *)
(*        insertion order                                                  *)
(* Text is a sequence of code points; all text of the model is printable   *)
(* and of the basic plane.  Inputs are trees: no container object occurs   *)
(* twice inside one input.                                                 *)
(***************************************************************************)
EXTENDS Integers, Sequences, FiniteSets, TLC

\* Bound of the model: the length of the sequences of scalars.
MaxLen == 2

\* Bound of the model: the rows a caller adds to an empty table.
MaxRows == 3

(***************************************************************************)
(* Values                                                                  *)
(***************************************************************************)
Val(k, n, s, ks, e) == [k |-> k, n |-> n, s |-> s, ks |-> ks, e |-> e]

PyInt(n) == Val("int", n, <<>>, <<>>, <<>>)

PyStr(s) == Val("str", 0, s, <<>>, <<>>)

PyFloat(halves) == Val("float", halves, <<>>, <<>>, <<>>)

PyDatetime(day) == Val("datetime", day, <<>>, <<>>, <<>>)

PyNone == Val("NoneType", 0, <<>>, <<>>, <<>>)

PyBool(b) == Val("bool", IF b THEN 1 ELSE 0, <<>>, <<>>, <<>>)

PyBytes(s) == Val("bytes", 0, s, <<>>, <<>>)

\* decimal.Decimal(n) and fractions.Fraction(n) of an int n
PyDecimal(n) == Val("Decimal", n, <<>>, <<>>, <<>>)

PyFraction(n) == Val("Fraction", n, <<>>, <<>>, <<>>)

PyList(e) == Val("list", 0, <<>>, <<>>, e)

PyTuple(e) == Val("tuple", 0, <<>>, <<>>, e)

PyDict(ks, e) == Val("dict", 0, <<>>, ks, e)

IsSeq(v) == v.k \in {"list", "tuple"}

IsDict(v) == v.k = "dict"

IsContainer(v) == IsSeq(v) \/ IsDict(v)

(***************************************************************************)
(* Text                                                                    *)
(***************************************************************************)
\* a < b for two str objects: code point by code point, a proper prefix first
RECURSIVE StrLessFrom(_, _, _)
StrLessFrom(a, b, i) ==
    IF i > Len(b) THEN FALSE
    ELSE IF i > Len(a) THEN TRUE
    ELSE IF a[i] # b[i] THEN a[i] < b[i]
    ELSE StrLessFrom(a, b, i + 1)

StrLess(a, b) == StrLessFrom(a, b, 1)

RECURSIVE Join(_, _)
Join(parts, sep) ==
    IF parts = <<>> THEN <<>>
    ELSE IF Len(parts) = 1 THEN parts[1]
    ELSE parts[1] \o sep \o Join(Tail(parts), sep)

Digits == <<48, 49, 50, 51, 52, 53, 54, 55, 56, 57>>

RECURSIVE nat_str(_)
nat_str(n) ==
    IF n < 10 THEN <<Digits[n + 1]>>
    ELSE nat_str(n \div 10) \o <<Digits[(n % 10) + 1]>>

\* str(n) and repr(n) of an int
int_str(n) == IF n < 0 THEN <<45>> \o nat_str(0 - n) ELSE nat_str(n)

\* repr of a float that is a whole number of halves: "1.0", "1.5"
float_str(halves) ==
    (IF halves < 0 THEN <<45>> ELSE <<>>)
    \o nat_str((IF halves < 0 THEN 0 - halves ELSE halves) \div 2)
    \o (IF halves % 2 = 0 THEN <<46, 48>> ELSE <<46, 53>>)

Has(s, c) == \E i \in 1..Len(s) : s[i] = c

RECURSIVE Escape(_, _)
\* s with a backslash put before every backslash and every occurrence of q
Escape(s, q) ==
    IF s = <<>> THEN <<>>
    ELSE (IF s[1] = q \/ s[1] = 92 THEN <<92, s[1]>> ELSE <<s[1]>>)
         \o Escape(Tail(s), q)

\* repr of a str: single quotes, double quotes when it holds ' and no "
str_repr(s) ==
    IF Has(s, 39) /\ ~Has(s, 34)
        THEN <<34>> \o Escape(s, 34) \o <<34>>
        ELSE <<39>> \o Escape(s, 39) \o <<39>>

HexDigits == <<48, 49, 50, 51, 52, 53, 54, 55, 56, 57, 97, 98, 99, 100, 101, 102>>

RECURSIVE bytes_escape(_, _)
\* as Escape, with \xhh for every byte that is not ASCII
bytes_escape(s, q) ==
    IF s = <<>> THEN <<>>
    ELSE (IF s[1] = q \/ s[1] = 92 THEN <<92, s[1]>>
          ELSE IF s[1] > 126
            THEN <<92, 120, HexDigits[(s[1] \div 16) + 1], HexDigits[(s[1] % 16) + 1]>>
          ELSE <<s[1]>>)
         \o bytes_escape(Tail(s), q)

\* repr of a bytes
bytes_repr(s) ==
    IF Has(s, 39) /\ ~Has(s, 34)
        THEN <<98, 34>> \o bytes_escape(s, 34) \o <<34>>
        ELSE <<98, 39>> \o bytes_escape(s, 39) \o <<39>>

zero_pad2(n) == IF n < 10 THEN <<48>> \o nat_str(n) ELSE nat_str(n)

\* str(datetime(2021, 9, day)) is "2021-09-DD 00:00:00"
datetime_str(day) ==
    <<50, 48, 50, 49, 45, 48, 57, 45>> \o zero_pad2(day)
    \o <<32, 48, 48, 58, 48, 48, 58, 48, 48>>

\* repr(datetime(2021, 9, day)) is "datetime.datetime(2021, 9, D, 0, 0)"
datetime_repr(day) ==
    <<100, 97, 116, 101, 116, 105, 109, 101, 46, 100, 97, 116, 101, 116, 105,
      109, 101, 40, 50, 48, 50, 49, 44, 32, 57, 44, 32>>
    \o nat_str(day) \o <<44, 32, 48, 44, 32, 48, 41>>

RECURSIVE py_repr(_)
\* repr(v); str(v) of a container is built from the repr of its parts
py_repr(v) ==
    CASE v.k = "int" -> int_str(v.n)
      [] v.k = "str" -> str_repr(v.s)
      [] v.k = "float" -> float_str(v.n)
      [] v.k = "datetime" -> datetime_repr(v.n)
      [] v.k = "NoneType" -> <<78, 111, 110, 101>>
      [] v.k = "bool" -> IF v.n = 1 THEN <<84, 114, 117, 101>>
                                   ELSE <<70, 97, 108, 115, 101>>
      [] v.k = "bytes" -> bytes_repr(v.s)
      [] v.k = "Decimal" ->
            <<68, 101, 99, 105, 109, 97, 108, 40, 39>> \o int_str(v.n) \o <<39, 41>>
      [] v.k = "Fraction" ->
            <<70, 114, 97, 99, 116, 105, 111, 110, 40>> \o int_str(v.n)
            \o <<44, 32, 49, 41>>
      [] v.k = "list" ->
            <<91>> \o Join([i \in 1..Len(v.e) |-> py_repr(v.e[i])], <<44, 32>>)
            \o <<93>>
      [] v.k = "tuple" ->
            <<40>> \o Join([i \in 1..Len(v.e) |-> py_repr(v.e[i])], <<44, 32>>)
            \o (IF Len(v.e) = 1 THEN <<44, 41>> ELSE <<41>>)
      [] v.k = "dict" ->
            <<123>>
            \o Join([i \in 1..Len(v.e) |->
                        str_repr(v.ks[i]) \o <<58, 32>> \o py_repr(v.e[i])],
                    <<44, 32>>)
            \o <<125>>

\* str(v)
py_str(v) ==
    CASE v.k = "str" -> v.s
      [] v.k = "datetime" -> datetime_str(v.n)
      [] v.k \in {"Decimal", "Fraction"} -> int_str(v.n)
      [] OTHER -> py_repr(v)

(***************************************************************************)
(* data_standardization (helper/data_format.py)                            *)
(***************************************************************************)
\* a rank table that puts any other type behind the types it lists
type_order_default_last(type_name) ==
    CASE type_name = "int" -> 1
      [] type_name = "str" -> 2
      [] type_name = "float" -> 3
      [] type_name = "datetime" -> 4
      [] type_name = "NoneType" -> 5
      [] type_name = "bool" -> 6
      [] type_name = "list" -> 7
      [] type_name = "dict" -> 8
      [] OTHER -> 9

\* the rank table of compare_items; a defaultdict, so any other type is 0
type_order(type_name) ==
    CASE type_name = "int" -> 1
      [] type_name = "str" -> 2
      [] type_name = "float" -> 3
      [] type_name = "datetime" -> 4
      [] type_name = "NoneType" -> 5
      [] type_name = "bool" -> 6
      [] type_name = "list" -> 7
      [] type_name = "dict" -> 8
      [] OTHER -> 0

\* the comparison without the tie-break on the type
compare_keys_no_type(item1_key, item1_type, item2_key, item2_type) ==
    IF item1_key # item2_key
        THEN (IF StrLess(item2_key, item1_key) THEN 1 ELSE -1)
        ELSE 0

\* the if/elif/else of compare_items on the two keys and the two type names
compare_keys(item1_key, item1_type, item2_key, item2_type) ==
    IF item1_key # item2_key
        THEN (IF StrLess(item2_key, item1_key) THEN 1 ELSE -1)
    ELSE IF item1_type # item2_type
        THEN (IF type_order(item1_type) > type_order(item2_type) THEN 1 ELSE -1)
    ELSE 0

compare_items(item1, item2) ==
    compare_keys(py_str(item1), item1.k, py_str(item2), item2.k)

RECURSIVE insort(_, _)
\* x put into the sorted run, behind every element it is not less than
insort(run, x) ==
    IF run = <<>> \/ ~(compare_items(x, run[Len(run)]) < 0)
        THEN Append(run, x)
        ELSE Append(insort(SubSeq(run, 1, Len(run) - 1), x), run[Len(run)])

RECURSIVE sorted_cmp(_)
\* sorted(list(d), key=functools.cmp_to_key(compare_items)): a stable sort
sorted_cmp(d) ==
    IF d = <<>> THEN <<>>
    ELSE insort(sorted_cmp(SubSeq(d, 1, Len(d) - 1)), d[Len(d)])

Both(v) == [ret |-> v, arg |-> v]

RECURSIVE sort_dict(_)
RECURSIVE sort_list(_)
RECURSIVE sort_item(_)
\* the body of the loops of sort_dict and sort_list on one item x.  ret: what
\* the container holds in its place afterwards; arg: the object x afterwards
sort_item(x) ==
    IF IsSeq(x) THEN sort_list(x)
    ELSE IF IsDict(x) THEN Both(sort_dict(x))
    ELSE Both(x)

\* sort_dict works in place and returns nothing: this is d after the call
sort_dict(d) == [d EXCEPT !.e = [i \in 1..Len(d.e) |-> sort_item(d.e[i]).ret]]

\* the sorted copy s of the elements, each item sorted, as a tuple
sorted_tuple(s) == PyTuple([i \in 1..Len(s) |-> sort_item(s[i]).ret])

\* ret: the tuple sort_list returns; arg: the caller's d after the call (the
\* sorted copy shares its dict elements with d, and sort_dict changes them)
sort_list(d) ==
    [ret |-> sorted_tuple(sorted_cmp(d.e)),
     arg |-> [d EXCEPT !.e = [i \in 1..Len(d.e) |-> sort_item(d.e[i]).arg]]]

\* '\\u{0:04x}'.format(c)
json_u(c) ==
    <<92, 117, HexDigits[((c \div 4096) % 16) + 1],
      HexDigits[((c \div 256) % 16) + 1], HexDigits[((c \div 16) % 16) + 1],
      HexDigits[(c % 16) + 1]>>

RECURSIVE json_escape(_)
\* the text of a str between the quotes of a JSON string, ensure_ascii=True
json_escape(s) ==
    IF s = <<>> THEN <<>>
    ELSE (IF s[1] = 34 \/ s[1] = 92 THEN <<92, s[1]>>
          ELSE IF s[1] > 126 THEN json_u(s[1])
          ELSE <<s[1]>>)
         \o json_escape(Tail(s))

RECURSIVE key_insort(_, _, _)
key_insort(ks, run, i) ==
    IF run = <<>> \/ ~StrLess(ks[i], ks[run[Len(run)]])
        THEN Append(run, i)
        ELSE Append(key_insort(ks, SubSeq(run, 1, Len(run) - 1), i),
                    run[Len(run)])

RECURSIVE key_sort(_, _)
key_sort(ks, n) == IF n = 0 THEN <<>> ELSE key_insort(ks, key_sort(ks, n - 1), n)

\* the items of a dict in insertion order, as json.dumps without sort_keys
unsorted_items(d) == [i \in 1..Len(d.ks) |-> i]

\* the order in which json.dumps(sort_keys=True) writes the items of a dict:
\* the positions of its keys, smallest key first
sorted_items(d) == key_sort(d.ks, Len(d.ks))

RECURSIVE json_dumps(_)
\* json.dumps(v, sort_keys=True, default=str, ensure_ascii=True)
json_dumps(v) ==
    CASE v.k = "int" -> int_str(v.n)
      [] v.k = "float" -> float_str(v.n)
      [] v.k = "NoneType" -> <<110, 117, 108, 108>>
      [] v.k = "bool" -> IF v.n = 1 THEN <<116, 114, 117, 101>>
                                   ELSE <<102, 97, 108, 115, 101>>
      [] v.k = "str" -> <<34>> \o json_escape(v.s) \o <<34>>
      [] IsSeq(v) ->
            <<91>> \o Join([i \in 1..Len(v.e) |-> json_dumps(v.e[i])], <<44, 32>>)
            \o <<93>>
      [] IsDict(v) ->
            <<123>>
            \o Join([i \in 1..Len(v.ks) |->
                        <<34>> \o json_escape(v.ks[sorted_items(v)[i]]) \o <<34>>
                        \o <<58, 32>> \o json_dumps(v.e[sorted_items(v)[i]])],
                    <<44, 32>>)
            \o <<125>>
      [] OTHER -> <<34>> \o json_escape(py_str(v)) \o <<34>>

\* the return of the list and dict branches: r.ret serialized
dumped(r) == [ret |-> PyStr(json_dumps(r.ret)), arg |-> r.arg]

\* the else branch serializing the input as well
unchanged_dumped(data) == dumped(Both(data))

\* the else branch of data_standardization: the input unchanged
unchanged(data) == Both(data)

\* ret: what data_standardization returns; arg: the object passed as data
\* after the call
data_standardization(data) ==
    IF IsContainer(data) THEN dumped(sort_item(data)) ELSE unchanged(data)

(***************************************************************************)
(* convert_data_to_id (helper/data_id.py)                                  *)
(*                                                                         *)
(* SHA-256 and uuid3 are taken as collision free: a digest is the term of  *)
(* what was hashed.  A text that may hold a digest is a record: the        *)
(* characters pre, followed, when hashed, by the 64 hex characters of the  *)
(* SHA-256 digest of the bytes msg.                                        *)
(***************************************************************************)
Text(pre) == [pre |-> pre, hashed |-> FALSE, msg |-> <<>>]

\* sha256().update(b).hexdigest()
hexdigest(b) == [pre |-> <<>>, hashed |-> TRUE, msg |-> b]

\* f'{prefix}{text}'
fstring(prefix, text) == [text EXCEPT !.pre = prefix \o text.pre]

IdNone == [kind |-> "None", text |-> Text(<<>>)]

IdUncalled == [kind |-> "uncalled", text |-> Text(<<>>)]

IdDigest(text) == [kind |-> "str", text |-> text]

\* str(uuid.uuid3(uuid.NAMESPACE_X500, input_str))
convert_text_to_uuid(input_str) == [kind |-> "uuid3", text |-> input_str]

\* copy.deepcopy that hands back the object it was given
deepcopy_alias(heap, ref) == [heap |-> heap, ref |-> ref]

\* copy.deepcopy(heap[ref]): a new object with the same content
deepcopy(heap, ref) == [heap |-> Append(heap, heap[ref]), ref |-> Len(heap) + 1]

\* the UTF-8 bytes of one code point of the basic plane
utf8_bytes(c) ==
    IF c < 128 THEN <<c>>
    ELSE IF c < 2048 THEN <<192 + (c \div 64), 128 + (c % 64)>>
    ELSE <<224 + (c \div 4096), 128 + ((c \div 64) % 64), 128 + (c % 64)>>

RECURSIVE encode_utf8(_)
\* str.encode('utf-8')
encode_utf8(s) ==
    IF s = <<>> THEN <<>> ELSE utf8_bytes(s[1]) \o encode_utf8(Tail(s))

\* the bytes that are hashed with the type of data_std in front: b or s
data_std_b_typed(data_std) ==
    IF data_std.k = "bytes" THEN <<98>> \o data_std.s
    ELSE <<115>> \o encode_utf8(data_std.s)

\* the bytes that are hashed
data_std_b(data_std) ==
    IF data_std.k = "bytes" THEN data_std.s ELSE encode_utf8(data_std.s)

\* the digest itself where the prefixed digest is meant
unprefixed(digest) == digest

\* f'sha256={hash_string.hexdigest()}'
prefixed(digest) == fstring(<<115, 104, 97, 50, 53, 54, 61>>, digest)

\* the return for a method, with any other method taken for 'uuid'
by_method_default_uuid(method, digest) ==
    IF method = "sha256" THEN IdDigest(digest)
    ELSE convert_text_to_uuid(prefixed(digest))

\* the if/elif on method; no branch is taken for any other method
by_method(method, digest) ==
    IF method = "uuid" THEN convert_text_to_uuid(prefixed(digest))
    ELSE IF method = "sha256" THEN IdDigest(digest)
    ELSE IdNone

\* the isinstance test that sends every type to the hash by its str()
hash_data_std_any(data_std, method) ==
    IF data_std.k = "bytes" THEN by_method(method, hexdigest(data_std.s))
    ELSE by_method(method, hexdigest(encode_utf8(py_str(data_std))))

\* the isinstance test on data_std and what follows it
hash_data_std(data_std, method) ==
    IF data_std.k \notin {"bytes", "str"} THEN IdNone
    ELSE by_method(method, hexdigest(data_std_b(data_std)))

\* the call with std the result of data_standardization on the copy c;
\* the copy is dropped on return
identified(n, c, std, method) ==
    [ret |-> hash_data_std(std.ret, method),
     heap |-> SubSeq([c.heap EXCEPT ![c.ref] = std.arg], 1, n)]

standardized_copy(n, c, method) ==
    identified(n, c, data_standardization(c.heap[c.ref]), method)

\* convert_data_to_id(heap[ref], method).  ret: the identifier or None;
\* heap: the caller's objects after the call
convert_data_to_id(heap, ref, method) ==
    standardized_copy(Len(heap), deepcopy(heap, ref), method)

(***************************************************************************)
(* find_edges_connections (helper/utils.py)                                *)
(*                                                                         *)
(* A DataFrame of two columns is the sequence of its rows, a row the pair  *)
(* of its cells.  A cell is None, an int or a str.  pandas holds a missing *)
(* cell of a numeric column as NaN and the numbers beside it as floats:    *)
(* NaN is NA and str(NaN) is 'nan', so None stands for both, and the float *)
(* of an int has its value, its order and its hash.  A call either raises  *)
(* (exc names the exception) or returns the rows of its result.            *)
(***************************************************************************)
\* list_of_empty_values, the default of is_empty
list_of_empty_values ==
    {<<>>,
     <<98, 114, 97, 107>>,
     <<98, 114, 97, 107, 100, 97, 110, 121, 99, 104>>,
     <<98, 114, 97, 107, 119, 97, 114, 116, 111, 115, 99, 105>>,
     <<98, 100>>,
     <<110, 111, 110, 101>>,
     <<110, 117, 108, 108>>,
     <<110, 97, 110>>,
     <<110, 97, 116>>,
     <<101, 109, 112, 116, 121>>,
     <<109, 105, 115, 115, 105, 110, 103>>,
     <<110, 97>>,
     <<110, 111, 118, 97, 108, 117, 101>>,
     <<110, 111, 116, 97, 112, 112, 108, 105, 99, 97, 98, 108, 101>>}

\* str.lower(), for text whose upper-case letters are ASCII
lower(s) == [i \in 1..Len(s) |-> IF s[i] \in 65..90 THEN s[i] + 32 ELSE s[i]]

\* \d of re on a str: the decimal digits of Unicode, of which the text of
\* the model has the ASCII and the Arabic-Indic ones
isdecimal(c) == c \in (48..57) \cup (1632..1641)

\* re.sub(r'[^a-z\d]+', '', value2)
RECURSIVE sub_non_alnum(_)
sub_non_alnum(s) ==
    IF s = <<>> THEN <<>>
    ELSE IF Head(s) \in 97..122 \/ isdecimal(Head(s))
         THEN <<Head(s)>> \o sub_non_alnum(Tail(s))
         ELSE sub_non_alnum(Tail(s))

\* is_empty(value) with fast_check=True and the default list
is_empty(value) == sub_non_alnum(lower(py_str(value))) \in list_of_empty_values

\* pandas isna() of a cell
isna(x) == x.k = "NoneType"

\* df.dropna(how='all'): the rows whose cells are all missing are dropped
dropna_all(df) == SelectSeq(df, LAMBDA row : \E i \in 1..Len(row) : ~isna(row[i]))

\* the cells of a row are taken only when its first cell holds a value
present_from_first(row) ==
    IF is_empty(row[1]) THEN <<>> ELSE SelectSeq(row, LAMBDA x : ~is_empty(x))

\* [x for x in row if not is_empty(x)]
present(row) == SelectSeq(row, LAMBDA x : ~is_empty(x))

\* a < b for two cells of one type
cell_lt(a, b) == IF a.k = "int" THEN a.n < b.n ELSE StrLess(a.s, b.s)

\* the members of a list or set can be ordered: '<' between an int and a
\* str raises TypeError, and a sort of two or more members compares each
\* member with another one
orderable(S) == Cardinality(S) < 2 \/ \A a, b \in S : a.k = b.k

RECURSIVE cell_insort(_, _)
\* x put into the sorted run, after the members that are not greater
cell_insort(run, x) ==
    IF run = <<>> THEN <<x>>
    ELSE IF cell_lt(x, run[Len(run)]) THEN Append(cell_insort(SubSeq(run, 1, Len(run) - 1), x), run[Len(run)])
    ELSE Append(run, x)

RECURSIVE sorted_cells(_)
\* sorted(l) of a list of cells of one type
sorted_cells(l) ==
    IF l = <<>> THEN <<>> ELSE cell_insort(sorted_cells(SubSeq(l, 1, Len(l) - 1)), l[Len(l)])

RECURSIVE slot_order(_)
\* the members of a set of ints in the order of their slots of the hash table
slot_order(S) ==
    IF S = {} THEN <<>>
    ELSE LET m == CHOOSE x \in S : \A y \in S \ {x} : x.n % 8 <= y.n % 8
         IN <<m>> \o slot_order(S \ {m})

RECURSIVE sorted_set(_)
\* sorted(s) of a set of cells of one type
sorted_set(S) ==
    IF S = {} THEN <<>>
    ELSE LET m == CHOOSE x \in S : \A y \in S \ {x} : cell_lt(x, y)
         IN <<m>> \o sorted_set(S \ {m})

Range(s) == {s[i] : i \in 1..Len(s)}

\* what a call does: it raises exc, or (exc = "") returns the table rows
raised(exc) == [exc |-> exc, rows |-> <<>>]

returned(rows) == [exc |-> "", rows |-> rows]

\* pd.DataFrame({'group_id': range(first, first + len(values)), 'value': values})
numbered(first, values) ==
    [i \in 1..Len(values) |-> [group_id |-> first + i - 1, value |-> values[i]]]

RECURSIVE combinations(_)
\* list(combinations(e, 2)): the pairs of e in the order of their positions
combinations(e) ==
    IF Len(e) < 2 THEN <<>>
    ELSE [j \in 1..(Len(e) - 1) |-> <<e[1], e[j + 1]>>] \o combinations(Tail(e))

RECURSIVE edges_c_over_two(_)
\* the pairs of the rows of more than two values only
edges_c_over_two(edges_sets) ==
    IF edges_sets = <<>> THEN <<>>
    ELSE (IF Len(Head(edges_sets)) > 2 THEN combinations(Head(edges_sets)) ELSE <<>>)
         \o edges_c_over_two(Tail(edges_sets))

RECURSIVE edges_c(_)
\* [i for s in [list(combinations(e, 2)) for e in edges_sets if len(e) > 1] for i in s]
edges_c(edges_sets) ==
    IF edges_sets = <<>> THEN <<>>
    ELSE (IF Len(Head(edges_sets)) > 1 THEN combinations(Head(edges_sets)) ELSE <<>>)
         \o edges_c(Tail(edges_sets))

\* set([i for s in [e for e in edges_sets if len(e) == 1] for i in s])
singletons(edges_sets) ==
    {edges_sets[i][1] : i \in {j \in 1..Len(edges_sets) : Len(edges_sets[j]) = 1}}

\* set([v for e in edges_c for v in e])
endpoints(ec) == {ec[i][1] : i \in 1..Len(ec)} \cup {ec[i][2] : i \in 1..Len(ec)}

RECURSIVE drop_duplicates(_)
\* DataFrame.drop_duplicates(): the first of equal rows is kept
drop_duplicates(l) ==
    IF l = <<>> THEN <<>>
    ELSE IF l[Len(l)] \in Range(SubSeq(l, 1, Len(l) - 1))
         THEN drop_duplicates(SubSeq(l, 1, Len(l) - 1))
         ELSE Append(drop_duplicates(SubSeq(l, 1, Len(l) - 1)), l[Len(l)])

\* the vertices of S and those an edge of the undirected graph joins to S
linked(E, S) ==
    S \cup {e[2] : e \in {f \in E : f[1] \in S}} \cup {e[1] : e \in {f \in E : f[2] \in S}}

RECURSIVE reach(_, _)
reach(E, S) == IF linked(E, S) = S THEN S ELSE reach(E, linked(E, S))

RECURSIVE components(_, _)
\* Graph.components(g, mode='strong') of the undirected graph, as the names
\* of the members: a component is numbered when its first vertex is met in
\* vertex order, and lists its members in vertex order
components(E, names) ==
    IF names = <<>> THEN <<>>
    ELSE <<SelectSeq(names, LAMBDA v : v \in reach(E, {Head(names)}))>>
         \o components(E, SelectSeq(names, LAMBDA v : v \notin reach(E, {Head(names)})))

\* for x in itemgetter(*c[i])(g.vs['name']): itemgetter of one index returns
\* the item and not a tuple, and the loop then runs over the item itself,
\* the characters of a str
iterated(c) ==
    IF Len(c) = 1 THEN [j \in 1..Len(c[1].s) |-> PyStr(<<c[1].s[j]>>)] ELSE c

\* the loop over the single item of a component raises: an int is not iterable
not_iterable(c) == Len(c) = 1 /\ c[1].k # "str"

RECURSIVE connections(_, _)
\* pd.concat of the tables of the components c[i + 1], c[i + 2], ...
connections(c, i) ==
    IF c = <<>> THEN <<>>
    ELSE [j \in 1..Len(iterated(Head(c))) |-> [group_id |-> i, value |-> iterated(Head(c))[j]]]
         \o connections(Tail(c), i + 1)

values(table) == {table[i].value : i \in 1..Len(table)}

\* connections['group_id'].max()
max_group_id(table) ==
    CHOOSE m \in {table[i].group_id : i \in 1..Len(table)} :
        \A i \in 1..Len(table) : table[i].group_id <= m

\* list(s) of a set: the order of the hash table.  The hash of an int is the
\* int, and the table of a set of up to four members has eight slots, so
\* ints of different slots are listed by slot; the hash of a str differs
\* from one process to the next, and so does the order
list_of_set(S) ==
    {q \in [1..Cardinality(S) -> S] :
        /\ \A i, j \in 1..Cardinality(S) : q[i] = q[j] => i = j
        /\ \A i, j \in 1..Cardinality(S) :
              (i < j /\ q[i].k = "int" /\ q[j].k = "int" /\ q[i].n % 8 # q[j].n % 8)
                  => q[i].n % 8 < q[j].n % 8}

\* the rows of the singletons left over put before the rows of the components
combined_singletons_first(table, left) ==
    {returned(numbered(max_group_id(table) + 1, q) \o table) : q \in list_of_set(left)}

\* lines 164-175: the singletons left over are numbered after the components
combined(table, left) ==
    {returned(table \o numbered(max_group_id(table) + 1, q)) : q \in list_of_set(left)}

\* a singleton stays in the pool although a component holds it
not_removed(pool, table) == pool

\* set(edges_s) - set(connections['value'])
removed(pool, table) == pool \ values(table)

\* lines 159-175
connected(edges_s, c) ==
    IF \E i \in 1..Len(c) : not_iterable(c[i]) THEN {raised("TypeError")}
    ELSE combined(connections(c, 0), removed(Range(edges_s), connections(c, 0)))

\* without the early return of line 146: pd.concat of no table raises
grouped_without_return(edges_s, vertices, edges) ==
    IF edges = <<>> THEN {raised("ValueError")}
    ELSE connected(edges_s, components(Range(edges), vertices))

\* lines 145-175.  The vertices and the ends of the edges are cells that
\* is_empty let through, none of them NA: lines 149-153 drop nothing
grouped(edges_s, vertices, edges) ==
    IF edges = <<>> THEN {returned(numbered(0, edges_s))}
    ELSE connected(edges_s, components(Range(edges), vertices))

\* lines 130-143
listed(singles, ec) ==
    IF ~orderable(singles) \/ ~orderable(endpoints(ec)) THEN {raised("TypeError")}
    ELSE grouped(sorted_set(singles), sorted_set(endpoints(ec)), drop_duplicates(ec))

\* the rows sorted
sorted_rows(rows) == [i \in 1..Len(rows) |-> sorted_cells(rows[i])]

\* lines 128-143
edges_sets(rows) ==
    IF \E i \in 1..Len(rows) : ~orderable(Range(rows[i])) THEN {raised("TypeError")}
    ELSE listed(singletons(sorted_rows(rows)), edges_c(sorted_rows(rows)))

\* find_edges_connections(df): the set of what the call can do
find_edges_connections(df) ==
    edges_sets([i \in 1..Len(dropna_all(df)) |-> present(dropna_all(df)[i])])

(***************************************************************************)
(* The inputs of the model                                                 *)
(***************************************************************************)
SeqsUpTo(S, n) == UNION {[1..k -> S] : k \in 0..n}

\* 10 is an int whose str() sorts before that of 2
Ints == {PyInt(1), PyInt(2), PyInt(10)}

SmallInts == {PyInt(1), PyInt(2)}

\* 'a', '1' and a letter outside ASCII
Strs == {PyStr(<<97>>), PyStr(<<49>>), PyStr(<<380>>)}

Scalars ==
    Ints \cup Strs \cup {PyNone, PyBool(TRUE), PyFloat(3), PyDatetime(1)}

\* b'', b'a', the UTF-8 bytes of the letter outside ASCII, and ''
TopOnly == {PyBytes(<<>>), PyBytes(<<97>>), PyBytes(<<197, 188>>), PyStr(<<>>)}

FlatSeqs ==
    {PyList(e) : e \in SeqsUpTo(Scalars, MaxLen)}
    \cup {PyTuple(e) : e \in SeqsUpTo(Ints \cup {PyStr(<<49>>)}, MaxLen)}

KeyOrders == {<<>>, <<<<97>>>>, <<<<98>>>>, <<<<97>>, <<98>>>>, <<<<98>>, <<97>>>>}

InnerLists ==
    {PyList(e) : e \in SeqsUpTo(SmallInts, 2)} \cup {PyList(<<PyFloat(3)>>)}

InnerTuples == {PyTuple(e) : e \in SeqsUpTo(SmallInts, 1)}

InnerDicts ==
    UNION {{PyDict(ks, e) : e \in [1..Len(ks) -> SmallInts]} : ks \in KeyOrders}

Children == SmallInts \cup InnerLists \cup InnerTuples \cup InnerDicts

NestedSeqs ==
    {PyList(e) : e \in [1..1 -> Children] \cup [1..2 -> Children]}
    \cup {PyTuple(e) : e \in [1..1 -> Children]}

FlatDicts ==
    UNION {{PyDict(ks, e) : e \in [1..Len(ks) -> Scalars]} :
            ks \in {<<>>, <<<<97>>>>, <<<<97>>, <<98>>>>}}

DictChildren ==
    {PyInt(1), PyList(<<PyInt(2), PyInt(1)>>), PyList(<<PyInt(1), PyInt(2)>>),
     PyTuple(<<PyInt(2), PyInt(1)>>), PyDict(<<>>, <<>>),
     PyDict(<<<<98>>, <<97>>>>, <<PyInt(1), PyList(<<PyInt(2), PyInt(1)>>)>>)}

NestedDicts ==
    {PyDict(<<<<97>>>>, e) : e \in [1..1 -> Children]}
    \cup {PyDict(<<<<97>>, <<98>>>>, e) : e \in [1..2 -> DictChildren]}

\* values whose str() a str can share
TieValues ==
    (Scalars \ Strs)
    \cup {PyList(<<>>), PyList(<<PyInt(1)>>), PyTuple(<<>>), PyTuple(<<PyInt(1)>>),
          PyTuple(<<PyInt(1), PyInt(2)>>), PyDict(<<>>, <<>>),
          PyDict(<<<<97>>>>, <<PyInt(1)>>)}

\* [v, str(v)] and [str(v), v]
TieLists ==
    {PyList(<<v, PyStr(py_str(v))>>) : v \in TieValues}
    \cup {PyList(<<PyStr(py_str(v)), v>>) : v \in TieValues}

\* [Decimal(1), Fraction(1)] and [Fraction(1), Decimal(1)]: two values of
\* the same str() whose types are both absent from the rank table
UnrankedTies ==
    {PyList(<<PyDecimal(1), PyFraction(1)>>),
     PyList(<<PyFraction(1), PyDecimal(1)>>)}

Values ==
    Scalars \cup TopOnly \cup FlatSeqs \cup NestedSeqs \cup FlatDicts
    \cup NestedDicts \cup TieLists \cup UnrankedTies

\* b'', '', [] and {}
EmptyInputs == {PyBytes(<<>>), PyStr(<<>>), PyList(<<>>), PyDict(<<>>, <<>>)}

\* the same content given as another kind of input: a str and its UTF-8
\* bytes ('a', a letter outside ASCII, '[]'); a container and the str that
\* is its serialization; a list and the tuple of the same elements
KindPairs ==
    {<<PyStr(s), PyBytes(encode_utf8(s))>> : s \in {<<97>>, <<380>>, <<91, 93>>}}
    \cup {<<c, data_standardization(c).ret>> :
             c \in {PyList(e) : e \in SeqsUpTo(SmallInts, MaxLen)}
                   \cup {PyTuple(<<PyInt(2), PyInt(1)>>),
                         PyDict(<<<<97>>>>, <<PyInt(1)>>)}}
    \cup {<<PyList(e), PyTuple(e)>> :
             e \in SeqsUpTo(Ints \cup {PyStr(<<49>>)}, MaxLen)}

\* 'md5' stands for every method that is neither 'uuid' nor 'sha256'
Methods == {"uuid", "sha256", "md5"}

\* the cells of the tables: None, 1, 2, 3, 8, 'a', 'bc' and 'N/A'
Cell1 == PyInt(1)

Cell2 == PyInt(2)

Cell3 == PyInt(3)

Cell8 == PyInt(8)

CellA == PyStr(<<97>>)

CellBC == PyStr(<<98, 99>>)

CellNA == PyStr(<<78, 47, 65>>)

\* the rows a caller adds to a table
Rows ==
    {<<Cell1, Cell2>>, <<Cell2, Cell1>>, <<Cell2, Cell8>>,
     <<Cell1, PyNone>>, <<PyNone, Cell2>>, <<Cell3, PyNone>>, <<Cell8, PyNone>>,
     <<PyNone, PyNone>>, <<CellNA, Cell1>>,
     <<Cell1, Cell1>>, <<CellA, CellA>>, <<CellA, PyNone>>, <<Cell1, CellA>>,
     <<CellBC, CellBC>>, <<CellBC, PyNone>>}

\* pd.DataFrame({'col1': col1, 'col2': col2}) of ints, 0 standing for None
DataFrame(col1, col2) ==
    [i \in 1..Len(col1) |->
        <<IF col1[i] = 0 THEN PyNone ELSE PyInt(col1[i]),
          IF col2[i] = 0 THEN PyNone ELSE PyInt(col2[i])>>]

\* the tables a caller starts from: the empty table, the tables of the tests
\* and the table [(1,2),(2,3),(4,None),(5,None)]
Tables ==
    {<<>>,
     DataFrame(<<1, 2, 3>>, <<0, 0, 0>>),
     DataFrame(<<1, 2, 3>>, <<2, 3, 4>>),
     DataFrame(<<1, 2, 3, 4, 5, 6>>, <<2, 3, 0, 5, 6, 0>>),
     DataFrame(<<1, 2, 3, 4, 5, 6, 7>>, <<2, 3, 4, 5, 6, 7, 8>>),
     DataFrame(<<1, 2, 4, 5>>, <<2, 3, 0, 0>>)}

(***************************************************************************)
(* convert_text_to_key (helper/data_id.py)                                 *)
(*                                                                         *)
(* The argument is None or a str; the result is None or a str.             *)
(***************************************************************************)
\* str.replace(old, new) for one character
replace(s, old, new) == [i \in 1..Len(s) |-> IF s[i] = old THEN new ELSE s[i]]

\* unicodedata.normalize("NFKD", c) of one character: z with dot above is
\* the letter and the combining dot; the other characters of the model have
\* no decomposition
NFKD(c) ==
    CASE c = 379 -> <<90, 775>>
      [] c = 380 -> <<122, 775>>
      [] OTHER -> <<c>>

\* unicodedata.combining(c) is not 0: the combining diacritical marks
combining(c) == c \in 768..846

RECURSIVE normalize(_)
normalize(s) == IF s = <<>> THEN <<>> ELSE NFKD(Head(s)) \o normalize(Tail(s))

\* remove_diacritics(input_str)
remove_diacritics(input_str) ==
    IF input_str = PyNone THEN PyNone
    ELSE PyStr(SelectSeq(normalize(replace(replace(input_str.s, 322, 108),
                                           321, 76)),
                         LAMBDA c : ~combining(c)))

\* str.isspace() of one character, which is \s of re on a str
isspace(c) == c \in {9, 10, 11, 12, 13, 28, 29, 30, 31, 32, 133, 160}

RECURSIVE lstrip(_)
lstrip(s) == IF s # <<>> /\ isspace(Head(s)) THEN lstrip(Tail(s)) ELSE s

RECURSIVE rstrip(_)
rstrip(s) ==
    IF s # <<>> /\ isspace(s[Len(s)]) THEN rstrip(SubSeq(s, 1, Len(s) - 1))
    ELSE s

\* str.strip()
strip(s) == rstrip(lstrip(s))

\* a character of the class [^a-z0-9\s]
not_key_char(c) == ~(c \in 97..122 \/ c \in 48..57 \/ isspace(c))

\* re.sub(r'[^a-z0-9\s]+', ' ', s): one space for every run of the class
RECURSIVE sub_not_key(_)
sub_not_key(s) ==
    IF s = <<>> THEN <<>>
    ELSE IF ~not_key_char(Head(s)) THEN <<Head(s)>> \o sub_not_key(Tail(s))
    ELSE IF Len(s) > 1 /\ not_key_char(s[2]) THEN sub_not_key(Tail(s))
    ELSE <<32>> \o sub_not_key(Tail(s))

\* re.sub(r'\s+', '_', s): one underscore for every run of white space
RECURSIVE sub_space(_)
sub_space(s) ==
    IF s = <<>> THEN <<>>
    ELSE IF ~isspace(Head(s)) THEN <<Head(s)>> \o sub_space(Tail(s))
    ELSE IF Len(s) > 1 /\ isspace(s[2]) THEN sub_space(Tail(s))
    ELSE <<95>> \o sub_space(Tail(s))

\* convert_text_to_key(input_str)
convert_text_to_key(input_str) ==
    IF is_empty(input_str) THEN PyNone
    ELSE PyStr(sub_space(strip(sub_not_key(strip(lower(
                   remove_diacritics(input_str).s))))))

(***************************************************************************)
(* PostgreSQLDatabase (helper/db_sql_database.py)                          *)
(*                                                                         *)
(* server is the sequence of the connections that psycopg2.connect has     *)
(* opened for the instance, each by its attribute closed: 0 when open, 1   *)
(* after close(), 2 when the server or the network broke it.  self holds   *)
(* the attributes of the instance: connection and cursor are 0 for None or *)
(* the place in server of the connection (of the connection the cursor was *)
(* made on); connection_params is "None", "empty" for a dict without items *)
(* or "params".  A world w is self and server with the exception raised,   *)
(* "" when none is.                                                        *)
(***************************************************************************)
\* connection.close() that closes nothing
connection_kept(w) == w

\* self.connection.close()
connection_close(w) ==
    [w EXCEPT !.server[w.self.connection] = IF @ = 0 THEN 1 ELSE @]

\* if self.connection: self.connection.close()
close_held(w) == IF w.self.connection # 0 THEN connection_close(w) ELSE w

\* _connect_db: psycopg2.connect opens a connection (ok) or raises
connect_db(w, ok) ==
    IF ok THEN [w EXCEPT !.server = Append(@, 0),
                         !.self.connection = Len(w.server) + 1,
                         !.self.cursor = Len(w.server) + 1]
    ELSE [w EXCEPT !.exc = "OperationalError"]

\* connect(cs): read_dict(cs) is None (unreadable), {} (empty) or a dict
connect(w, cs, ok) ==
    IF cs = "unreadable"
        THEN [w EXCEPT !.self.connection_params = "None", !.exc = "TypeError"]
        ELSE connect_db(close_held([w EXCEPT !.self.connection_params = cs]), ok)

\* reconnect(): a dict without items is false
reconnect(w, ok) ==
    IF w.self.connection_params = "params" THEN connect_db(close_held(w), ok)
    ELSE w

\* _reconnect_if_closed()
reconnect_if_closed(w, ok) ==
    IF w.self.connection # 0 /\ w.server[w.self.connection] # 0
        THEN reconnect(w, ok)
        ELSE w

\* close()
close(w) ==
    IF w.self.connection # 0
        THEN [connection_close(w) EXCEPT !.self.connection = 0, !.self.cursor = 0]
        ELSE w

\* execute_batch or execute_values on self.cursor: it raises when there is
\* no cursor or its connection is not open; otherwise the statement runs
\* ("ok"), fails ("error") or the connection breaks under it ("lost")
execute_batch(w, outcome) ==
    IF w.self.cursor = 0 \/ w.server[w.self.cursor] # 0
        THEN [w |-> w, raised |-> TRUE]
    ELSE IF outcome = "lost"
        THEN [w |-> [w EXCEPT !.server[w.self.cursor] = 2], raised |-> TRUE]
    ELSE [w |-> w, raised |-> outcome = "error"]

\* what a call did: the world after it, what it returned ("raised" when it
\* raised) and, for each run of the batch statement, whether it succeeded
Did(w, ret, attempts) ==
    [w |-> [w EXCEPT !.exc = ""], ret |-> ret, attempts |-> attempts]

\* the try/except of insert_batch after the first run r1 of the statement
retry(r1, ok2, a2) ==
    IF ~r1.raised THEN Did(r1.w, "True", <<TRUE>>)
    ELSE IF reconnect_if_closed(r1.w, ok2).exc # ""
        THEN Did(reconnect_if_closed(r1.w, ok2), "False", <<FALSE>>)
    ELSE LET r2 == execute_batch(reconnect_if_closed(r1.w, ok2), a2)
         IN  Did(r2.w, IF r2.raised THEN "False" ELSE "True", <<FALSE, ~r2.raised>>)

\* insert_batch after _reconnect_if_closed() has given the world w1
inserted(w1, data, on_conflict, a1, ok2, a2) ==
    IF w1.exc # "" THEN Did(w1, "raised", <<>>)
    ELSE IF data \in {"{}", "[]", "empty DataFrame"} THEN Did(w1, "True", <<>>)
    ELSE IF data \notin {"dict", "list", "DataFrame"} THEN Did(w1, "False", <<>>)
    ELSE IF on_conflict = "wrong on_conflict_do" THEN Did(w1, "False", <<>>)
    ELSE retry(execute_batch(w1, a1), ok2, a2)

\* insert_batch(data, table_name, on_conflict=..., on_conflict_do=...)
insert_batch(w, data, on_conflict, ok1, a1, ok2, a2) ==
    inserted(reconnect_if_closed(w, ok1), data, on_conflict, a1, ok2, a2)

\* the one try/except of update_batch and delete_batch
tried(r1) == Did(r1.w, IF r1.raised THEN "False" ELSE "True", <<~r1.raised>>)

\* update_batch and delete_batch after _reconnect_if_closed(): arguments
\* that are not accepted (no columns, data that is no list or is empty, more
\* than one field) return False
changed(w1, data, a1) ==
    IF w1.exc # "" THEN Did(w1, "raised", <<>>)
    ELSE IF data # "list" THEN Did(w1, "False", <<>>)
    ELSE tried(execute_batch(w1, a1))

\* update_batch(data, columns_set, columns_where, table_name)
update_batch(w, data, ok1, a1) == changed(reconnect_if_closed(w, ok1), data, a1)

\* delete_batch(data, table_name)
delete_batch(w, data, ok1, a1) == changed(reconnect_if_closed(w, ok1), data, a1)

(***************************************************************************)
(* The state: a caller that builds data, builds the same content a second  *)
(* time in another order, and calls the functions on both                  *)
(***************************************************************************)
VARIABLES heap, orig, phase, out, ids, cmp

\* the table of a caller of find_edges_connections, what the call on it did,
\* what a second call on the rows of one group of the result did, and what
\* the call on another table of the same rows did
VARIABLES df, res, again, other

\* the text a caller of convert_text_to_key has typed, and what the call on
\* it returned
VARIABLES input_str, output_str

key_vars == <<input_str, output_str>>

\* a PostgreSQLDatabase instance, the connections opened for it, and the
\* last call on it with the instance and the connections before the call
VARIABLES self, server, last

db_vars == <<self, server, last>>

vars ==
    <<heap, orig, phase, out, ids, cmp, df, res, again, other, key_vars, db_vars>>

\* no call yet
NotCalled == [exc |-> "not called", rows |-> <<>>]

\* no other table yet
NoOther == [df |-> <<>>, call |-> NotCalled]

Unset == Val("unset", 0, <<>>, <<>>, <<>>)

\* no text and no call of convert_text_to_key
KeyIdle == input_str = PyNone /\ output_str = Unset

\* PostgreSQLDatabase(): the attributes __init__ sets
NewSelf == [connection |-> 0, cursor |-> 0, connection_params |-> "None"]

\* no call on the instance yet
NoCall ==
    [op |-> "none", data |-> "none", ret |-> "none", attempts |-> <<>>,
     before |-> [self |-> NewSelf, server |-> <<>>]]

\* a new instance that no one calls
DbIdle == self = NewSelf /\ server = <<>> /\ last = NoCall

Swap(q, i) == [q EXCEPT ![i] = q[i + 1], ![i + 1] = q[i]]

\* the items i and i+1 of a container in the other order
SwapItems(v, i) ==
    IF IsDict(v) THEN [v EXCEPT !.ks = Swap(v.ks, i), !.e = Swap(v.e, i)]
    ELSE [v EXCEPT !.e = Swap(v.e, i)]

\* heap[1] is data, heap[2] the second build of it; orig is what was built
Init ==
    /\ \/ \E x \in Values : heap = <<x, x>>
       \/ \E x \in EmptyInputs, y \in EmptyInputs : x # y /\ heap = <<x, y>>
       \/ heap \in KindPairs
    /\ orig = heap
    /\ phase = "built"
    /\ out = <<Unset, Unset>>
    /\ ids = [m \in Methods |-> <<IdUncalled, IdUncalled>>]
    /\ cmp = [i |-> 0, j |-> 0, r |-> 0, rev |-> 0]
    /\ df = <<>>
    /\ res = NotCalled
    /\ again = [group_id |-> 0, call |-> NotCalled]
    /\ other = NoOther
    /\ KeyIdle
    /\ DbIdle

\* the second build lists two neighbouring elements, or inserts two
\* neighbouring keys, the other way round
ShuffleTop(i) ==
    /\ phase = "built"
    /\ IsContainer(heap[2])
    /\ heap[2].k = heap[1].k
    /\ i \in 1..(Len(heap[2].e) - 1)
    /\ heap' = [heap EXCEPT ![2] = SwapItems(heap[2], i)]
    /\ orig' = heap'
    /\ UNCHANGED <<phase, out, ids, cmp, df, res, again, other,
                   key_vars, db_vars>>

\* the same inside the container that is item c of the second build
ShuffleNested(c, i) ==
    /\ phase = "built"
    /\ IsContainer(heap[2])
    /\ heap[2].k = heap[1].k
    /\ c \in 1..Len(heap[2].e)
    /\ IsContainer(heap[2].e[c])
    /\ i \in 1..(Len(heap[2].e[c].e) - 1)
    /\ heap' = [heap EXCEPT ![2].e[c] = SwapItems(heap[2].e[c], i)]
    /\ orig' = heap'
    /\ UNCHANGED <<phase, out, ids, cmp, df, res, again, other,
                   key_vars, db_vars>>

Returned(r) == out' = <<r[1].ret, r[2].ret>> /\ heap' = <<r[1].arg, r[2].arg>>

second_call(r1, method) ==
    [first |-> r1.ret, second |-> convert_data_to_id(r1.heap, 2, method)]

\* convert_data_to_id on the first build, then on the second
convert_both(h, method) == second_call(convert_data_to_id(h, 1, method), method)

Identified(method, r) ==
    /\ ids' = [ids EXCEPT ![method] = <<r.first, r.second.ret>>]
    /\ heap' = r.second.heap

\* out = data_standardization(data), for both builds
Standardize ==
    /\ phase = "built"
    /\ Returned([b \in 1..2 |-> data_standardization(heap[b])])
    /\ phase' = "std"
    /\ UNCHANGED <<orig, ids, cmp, df, res, again, other,
                   key_vars, db_vars>>

\* ids[method] = convert_data_to_id(data, method), for both builds
ConvertId(method) ==
    /\ phase \in {"built", "id"}
    /\ ids[method][1] = IdUncalled
    /\ Identified(method, convert_both(heap, method))
    /\ phase' = "id"
    /\ UNCHANGED <<orig, out, cmp, df, res, again, other,
                   key_vars, db_vars>>

\* sort_list compares two elements of the sequence it sorts
Compare(i, j) ==
    /\ phase = "built"
    /\ IsSeq(heap[1])
    /\ i \in 1..Len(heap[1].e)
    /\ j \in i..Len(heap[1].e)
    /\ cmp' = [i |-> i, j |-> j,
               r |-> compare_items(heap[1].e[i], heap[1].e[j]),
               rev |-> compare_items(heap[1].e[j], heap[1].e[i])]
    /\ phase' = "cmp"
    /\ UNCHANGED <<heap, orig, out, ids, df, res, again, other,
                   key_vars, db_vars>>

Next ==
    \/ \E i \in 1..MaxLen : ShuffleTop(i)
    \/ \E c \in 1..(MaxLen + 1), i \in 1..MaxLen : ShuffleNested(c, i)
    \/ Standardize
    \/ \E method \in Methods : ConvertId(method)
    \/ \E i \in 1..(MaxLen + 1), j \in 1..(MaxLen + 1) : Compare(i, j)

Spec == Init /\ [][Next]_vars

(***************************************************************************)
(* A caller of find_edges_connections: it builds a table row by row, calls *)
(* the function on it, and calls it again on the rows of one group of the  *)
(* result                                                                  *)
(***************************************************************************)
GroupInit ==
    /\ df \in Tables
    /\ res = NotCalled
    /\ again = [group_id |-> 0, call |-> NotCalled]
    /\ other = NoOther
    /\ heap = <<>>
    /\ orig = <<>>
    /\ phase = "group"
    /\ out = <<Unset, Unset>>
    /\ ids = [m \in Methods |-> <<IdUncalled, IdUncalled>>]
    /\ cmp = [i |-> 0, j |-> 0, r |-> 0, rev |-> 0]
    /\ KeyIdle
    /\ DbIdle

\* one more row in the table
AddRow(row) ==
    /\ res = NotCalled
    /\ Len(df) < MaxRows
    /\ df' = Append(df, row)
    /\ UNCHANGED <<res, again, other, heap, orig, phase, out, ids, cmp,
                   key_vars, db_vars>>

\* res = find_edges_connections(df)
Group ==
    /\ res = NotCalled
    /\ res' \in find_edges_connections(df)
    /\ UNCHANGED <<df, again, other, heap, orig, phase, out, ids, cmp,
                   key_vars, db_vars>>

\* result[result['group_id'] == g]: the rows of one group, a table of the
\* columns group_id and value
group_rows(table, g) ==
    [i \in 1..Len(SelectSeq(table, LAMBDA r : r.group_id = g)) |->
        <<PyInt(g), SelectSeq(table, LAMBDA r : r.group_id = g)[i].value>>]

\* find_edges_connections(result[result['group_id'] == g])
Regroup(g) ==
    /\ res.exc = ""
    /\ again.call = NotCalled
    /\ other = NoOther
    /\ \E r \in find_edges_connections(group_rows(res.rows, g)) :
          again' = [group_id |-> g, call |-> r]
    /\ UNCHANGED <<df, res, other, heap, orig, phase, out, ids, cmp,
                   key_vars, db_vars>>

\* the table with the two cells of row i the other way round
swapped(table, i) == [table EXCEPT ![i] = <<table[i][2], table[i][1]>>]

\* the table with row i once more, at its end
duplicated(table, i) == Append(table, table[i])

\* find_edges_connections(t), t a table of the rows of df
GroupOther(t) ==
    /\ res # NotCalled
    /\ again.call = NotCalled
    /\ other = NoOther
    /\ \E r \in find_edges_connections(t) : other' = [df |-> t, call |-> r]
    /\ UNCHANGED <<df, res, again, heap, orig, phase, out, ids, cmp,
                   key_vars, db_vars>>

GroupNext ==
    \/ \E row \in Rows : AddRow(row)
    \/ Group
    \/ \E g \in {res.rows[i].group_id : i \in 1..Len(res.rows)} : Regroup(g)
    \/ \E i \in 1..Len(df) : GroupOther(swapped(df, i))
    \/ \E i \in 1..Len(df) : GroupOther(duplicated(df, i))

GroupSpec == GroupInit /\ [][GroupNext]_vars

(***************************************************************************)
(* A caller of convert_text_to_key: it has None or types a text, character *)
(* by character, and calls the function on it                              *)
(***************************************************************************)
\* Bound of the model: the length of the text.
MaxText == 3

\* space ! 1 A a n l-stroke z-dot-above Arabic-Indic-three
KeyChars == {32, 33, 49, 65, 97, 110, 322, 380, 1635}

KeyInit ==
    /\ input_str \in {PyNone, PyStr(<<>>)}
    /\ output_str = Unset
    /\ heap = <<>>
    /\ orig = <<>>
    /\ phase = "key"
    /\ out = <<Unset, Unset>>
    /\ ids = [m \in Methods |-> <<IdUncalled, IdUncalled>>]
    /\ cmp = [i |-> 0, j |-> 0, r |-> 0, rev |-> 0]
    /\ df = <<>>
    /\ res = NotCalled
    /\ again = [group_id |-> 0, call |-> NotCalled]
    /\ other = NoOther
    /\ DbIdle

\* one more character
Type(c) ==
    /\ input_str # PyNone
    /\ output_str = Unset
    /\ Len(input_str.s) < MaxText
    /\ input_str' = PyStr(Append(input_str.s, c))
    /\ UNCHANGED <<output_str, heap, orig, phase, out, ids, cmp, df, res,
                   again, other, db_vars>>

\* output_str = convert_text_to_key(input_str)
ConvertKey ==
    /\ output_str = Unset
    /\ output_str' = convert_text_to_key(input_str)
    /\ UNCHANGED <<input_str, heap, orig, phase, out, ids, cmp, df, res,
                   again, other, db_vars>>

KeyNext ==
    \/ \E c \in KeyChars : Type(c)
    \/ ConvertKey

KeySpec == KeyInit /\ [][KeyNext]_vars

(***************************************************************************)
(* A caller of one PostgreSQLDatabase instance: it connects, reconnects,   *)
(* closes and runs batch calls in any order, while the server may break    *)
(* the connection.  psycopg2.connect and the statements succeed or fail.   *)
(***************************************************************************)
\* Bound of the model: the connections opened for the instance.
MaxConns == 3

\* what the argument cs of connect reads as
ConnectionStrings == {"unreadable", "empty", "params"}

\* the argument data of a batch call: a dict, a list or a DataFrame, each
\* empty or not, or an object of another type
BatchData == {"{}", "dict", "[]", "list", "empty DataFrame", "DataFrame", "other"}

\* the arguments on_conflict, on_conflict_do and on_conflict_do_list
OnConflict == {"none", "do nothing", "do update", "wrong on_conflict_do"}

\* what a run of the statement on an open connection does
Outcomes == {"ok", "error", "lost"}

World == [self |-> self, server |-> server, exc |-> ""]

DbInit ==
    /\ DbIdle
    /\ KeyIdle
    /\ heap = <<>>
    /\ orig = <<>>
    /\ phase = "db"
    /\ out = <<Unset, Unset>>
    /\ ids = [m \in Methods |-> <<IdUncalled, IdUncalled>>]
    /\ cmp = [i |-> 0, j |-> 0, r |-> 0, rev |-> 0]
    /\ df = <<>>
    /\ res = NotCalled
    /\ again = [group_id |-> 0, call |-> NotCalled]
    /\ other = NoOther

\* the call op(data) did d
Call(op, data, d) ==
    /\ self' = d.w.self
    /\ server' = d.w.server
    /\ last' = [op |-> op, data |-> data, ret |-> d.ret, attempts |-> d.attempts,
                before |-> [self |-> self, server |-> server]]
    /\ UNCHANGED <<heap, orig, phase, out, ids, cmp, df, res, again, other,
                   key_vars>>

\* what a call that returns None did
Returns(w) == Did(w, IF w.exc = "" THEN "None" ELSE "raised", <<>>)

\* db.connect(cs)
Connect(cs, ok) ==
    /\ Len(server) < MaxConns
    /\ Call("connect", cs, Returns(connect(World, cs, ok)))

\* db.reconnect()
Reconnect(ok) ==
    /\ Len(server) < MaxConns
    /\ Call("reconnect", "none", Returns(reconnect(World, ok)))

\* db.close()
Close == Call("close", "none", Returns(close(World)))

\* db.insert_batch(data, table_name, ...)
InsertBatch(data, on_conflict, ok1, a1, ok2, a2) ==
    /\ Len(server) + 1 < MaxConns
    /\ Call("insert_batch", data,
            insert_batch(World, data, on_conflict, ok1, a1, ok2, a2))

\* db.update_batch(data, columns_set, columns_where, table_name)
UpdateBatch(data, ok1, a1) ==
    /\ Len(server) < MaxConns
    /\ Call("update_batch", data, update_batch(World, data, ok1, a1))

\* db.delete_batch(data, table_name)
DeleteBatch(data, ok1, a1) ==
    /\ Len(server) < MaxConns
    /\ Call("delete_batch", data, delete_batch(World, data, ok1, a1))

\* the server or the network breaks the connection the instance holds
Break ==
    /\ self.connection # 0
    /\ server[self.connection] = 0
    /\ server' = [server EXCEPT ![self.connection] = 2]
    /\ UNCHANGED <<self, last, heap, orig, phase, out, ids, cmp, df, res, again,
                   other, key_vars>>

DbNext ==
    \/ \E cs \in ConnectionStrings, ok \in BOOLEAN : Connect(cs, ok)
    \/ \E ok \in BOOLEAN : Reconnect(ok)
    \/ Close
    \/ \E data \in BatchData, on_conflict \in OnConflict, ok1 \in BOOLEAN,
          a1 \in Outcomes, ok2 \in BOOLEAN, a2 \in Outcomes :
            InsertBatch(data, on_conflict, ok1, a1, ok2, a2)
    \/ \E data \in BatchData, ok1 \in BOOLEAN, a1 \in Outcomes :
            UpdateBatch(data, ok1, a1)
    \/ \E data \in BatchData, ok1 \in BOOLEAN, a1 \in Outcomes :
            DeleteBatch(data, ok1, a1)
    \/ Break

DbSpec == DbInit /\ [][DbNext]_vars

(***************************************************************************)
(* Relations between the two builds                                        *)
(***************************************************************************)
Perms(n) == {p \in [1..n -> 1..n] : \A i, j \in 1..n : p[i] = p[j] => i = j}

\* b lists the elements of a in another order
IsPermOf(a, b) ==
    /\ Len(a) = Len(b)
    /\ \E p \in Perms(Len(a)) : \A i \in 1..Len(a) : a[i] = b[p[i]]

\* b maps the same keys to the same values as a
SameMapping(a, b) ==
    /\ IsDict(a) /\ IsDict(b) /\ Len(a.ks) = Len(b.ks)
    /\ \E p \in Perms(Len(a.ks)) :
        \A i \in 1..Len(a.ks) : a.ks[i] = b.ks[p[i]] /\ a.e[i] = b.e[p[i]]

RECURSIVE ReorderEq(_, _)
\* a and b are equal up to the order of the elements of their sequences and
\* of the keys of their mappings, at every depth
ReorderEq(a, b) ==
    /\ a.k = b.k
    /\ Len(a.e) = Len(b.e)
    /\ IF IsSeq(a)
         THEN \E p \in Perms(Len(a.e)) :
                \A i \in 1..Len(a.e) : ReorderEq(a.e[i], b.e[p[i]])
       ELSE IF IsDict(a)
         THEN \E p \in Perms(Len(a.e)) :
                \A i \in 1..Len(a.e) :
                    a.ks[i] = b.ks[p[i]] /\ ReorderEq(a.e[i], b.e[p[i]])
       ELSE a = b

RECURSIVE JsonScan(_, _, _, _, _)
\* reads the JSON text s from position i: open is one entry for each object
\* or array that is open, holding the last key read in it; TRUE when every
\* key is greater than the key before it in the same object
JsonScan(s, i, open, instr, tok) ==
    IF i > Len(s) THEN TRUE
    ELSE IF instr THEN
        IF s[i] = 92 THEN JsonScan(s, i + 2, open, TRUE, tok \o <<s[i], s[i + 1]>>)
        ELSE IF s[i] # 34 THEN JsonScan(s, i + 1, open, TRUE, Append(tok, s[i]))
        ELSE IF i < Len(s) /\ s[i + 1] = 58 THEN
            /\ open[Len(open)].first \/ StrLess(open[Len(open)].key, tok)
            /\ JsonScan(s, i + 1,
                        [open EXCEPT ![Len(open)] = [first |-> FALSE, key |-> tok]],
                        FALSE, <<>>)
        ELSE JsonScan(s, i + 1, open, FALSE, <<>>)
    ELSE IF s[i] = 34 THEN JsonScan(s, i + 1, open, TRUE, <<>>)
    ELSE IF s[i] \in {91, 123}
        THEN JsonScan(s, i + 1, Append(open, [first |-> TRUE, key |-> <<>>]),
                      FALSE, <<>>)
    ELSE IF s[i] \in {93, 125}
        THEN JsonScan(s, i + 1, SubSeq(open, 1, Len(open) - 1), FALSE, <<>>)
    ELSE JsonScan(s, i + 1, open, FALSE, <<>>)

JsonKeysAscending(s) == JsonScan(s, 1, <<>>, FALSE, <<>>)

Called(method) == ids[method][1] # IdUncalled

(***************************************************************************)
(* Claims                                                                  *)
(***************************************************************************)
\* C1: two inputs that are equal up to the order of sequence elements and of
\* mapping keys at any depth get the same identifier, for 'uuid' and 'sha256'.
C1_ReorderedSameId ==
    \A m \in {"uuid", "sha256"} :
        (Called(m) /\ ReorderEq(orig[1], orig[2])) => ids[m][1] = ids[m][2]

\* C2: a sequence and any permutation of it have the same
\* data_standardization output.
C2_PermutedSequenceSameOutput ==
    (/\ phase = "std"
     /\ IsSeq(orig[1])
     /\ orig[2].k = orig[1].k
     /\ IsPermOf(orig[1].e, orig[2].e))
    => out[1] = out[2]

C2_Witness ==
    /\ phase = "std"
    /\ IsSeq(orig[1])
    /\ orig[2].k = orig[1].k
    /\ IsPermOf(orig[1].e, orig[2].e)
    /\ orig[1].e # orig[2].e
    /\ out[1].k = "str"
    /\ out[1] = out[2]
    /\ \E i \in 1..Len(orig[1].e) : IsContainer(orig[1].e[i])

\* C3: a mapping built with its keys inserted in another order has the same
\* data_standardization output, and the output lists the keys of every
\* mapping in lexicographic order.
C3_KeyOrderIndependent ==
    /\ (phase = "std" /\ SameMapping(orig[1], orig[2])) => out[1] = out[2]
    /\ (phase = "std" /\ IsContainer(orig[1])) => JsonKeysAscending(out[1].s)

C3_Witness ==
    /\ phase = "std"
    /\ SameMapping(orig[1], orig[2])
    /\ orig[1].ks # orig[2].ks
    /\ out[1] = out[2]
    /\ StrLess(orig[2].ks[2], orig[2].ks[1])
    /\ \E i \in 1..Len(orig[1].e) : IsDict(orig[1].e[i]) /\ Len(orig[1].e[i].e) = 2

\* C4: data_standardization leaves its argument as it was: same contents,
\* same order, same container types.
C4_StandardizeLeavesArgument == phase = "std" => heap = orig

\* C5: convert_data_to_id leaves the caller's data as it was, for every
\* input and every method.
C5_ConvertIdLeavesArgument == phase = "id" => heap = orig

\* an input that data_standardization would change, had it been given it
C5_Witness ==
    /\ phase = "id"
    /\ data_standardization(orig[1]).arg # orig[1]
    /\ heap = orig
    /\ \A m \in Methods : Called(m)

\* the Type Rank of the comparator contract: a sequence is a list or a tuple
TypeRank(v) ==
    CASE v.k = "int" -> 1
      [] v.k = "str" -> 2
      [] v.k = "float" -> 3
      [] v.k = "datetime" -> 4
      [] v.k = "NoneType" -> 5
      [] v.k = "bool" -> 6
      [] IsSeq(v) -> 7
      [] IsDict(v) -> 8
      [] OTHER -> 0

ComparatorContract(a, b) ==
    IF py_str(a) # py_str(b)
        THEN (IF StrLess(py_str(a), py_str(b)) THEN -1 ELSE 1)
    ELSE IF TypeRank(a) # TypeRank(b)
        THEN (IF TypeRank(a) < TypeRank(b) THEN -1 ELSE 1)
    ELSE 0

\* C6: compare_items orders two values by their str() forms, then by Type
\* Rank Integer < String < Float < Datetime < Null < Boolean < Sequence <
\* Mapping, and returns 0 only when str() form and type both match.
C6_ComparatorContract ==
    phase = "cmp" =>
        LET a == orig[1].e[cmp.i]
            b == orig[1].e[cmp.j]
        IN  /\ cmp.r = ComparatorContract(a, b)
            /\ cmp.rev = ComparatorContract(b, a)
            /\ cmp.r = 0 => (py_str(a) = py_str(b) /\ a.k = b.k)

\* C7: convert_data_to_id returns None for every input that is neither a
\* container nor str nor bytes, whatever the method.
C7_NoneForOtherScalars ==
    \A m \in Methods :
        (Called(m) /\ orig[1].k \notin {"str", "bytes", "list", "tuple", "dict"})
        => ids[m][1] = IdNone

C7_Witness ==
    /\ orig[1] = PyNone
    /\ Called("uuid") /\ ids["uuid"][1] = IdNone
    /\ Called("sha256") /\ ids["sha256"][1] = IdNone

\* C8: convert_data_to_id returns None for every method that is neither
\* 'uuid' nor 'sha256', whatever the input.
C8_NoneForOtherMethod ==
    \A m \in Methods \ {"uuid", "sha256"} :
        Called(m) => (ids[m][1] = IdNone /\ ids[m][2] = IdNone)

C8_Witness ==
    /\ Called("md5")
    /\ ids["md5"][1] = IdNone
    /\ IsDict(orig[1])
    /\ Called("uuid") /\ ids["uuid"][1] # IdNone

\* the bytes that are hashed: the bytes themselves, the UTF-8 encoding of a
\* str, the canonical serialization of a container
HashedBytes(x) ==
    IF x.k = "bytes" THEN x.s
    ELSE IF x.k = "str" THEN encode_utf8(x.s)
    ELSE encode_utf8(data_standardization(x).ret.s)

\* C9: the 'uuid' identifier is convert_text_to_uuid('sha256=' + the
\* 'sha256' identifier), and that is the digest of the input's bytes.
C9_UuidFromDigest ==
    (Called("uuid") /\ Called("sha256") /\ ids["uuid"][1] # IdNone) =>
        /\ ids["sha256"][1] = IdDigest(hexdigest(HashedBytes(orig[1])))
        /\ ids["uuid"][1] =
             convert_text_to_uuid(fstring(<<115, 104, 97, 50, 53, 54, 61>>,
                                          ids["sha256"][1].text))

C9_Witness ==
    /\ Called("uuid") /\ Called("sha256")
    /\ ids["uuid"][1] # IdNone
    /\ IsSeq(orig[1]) /\ Len(orig[1].e) = 2
    /\ ids["uuid"][1].text.msg # <<>>

BothEmpty ==
    orig[1] \in EmptyInputs /\ orig[2] \in EmptyInputs /\ orig[1] # orig[2]

\* C10 as claimed: the 'uuid' identifiers of b'', '', [] and {} are four
\* values, different from one another.
C10_EmptyIdsPairwiseDistinct ==
    (BothEmpty /\ Called("uuid")) => ids["uuid"][1] # ids["uuid"][2]

\* what is hashed for an empty input: nothing, "[]" or "{}"
EmptyForm(x) ==
    IF x.k = "list" THEN <<91, 93>> ELSE IF x.k = "dict" THEN <<123, 125>> ELSE <<>>

\* C10 amended: each of b'', '', [] and {} has one fixed 'uuid' identifier;
\* those of b'' and '' are the same, and that one, the one of [] and the one
\* of {} are three values different from one another.
C10_EmptyIdsThreeDistinct ==
    (BothEmpty /\ Called("uuid")) =>
        /\ ids["uuid"][1] =
             convert_text_to_uuid(fstring(<<115, 104, 97, 50, 53, 54, 61>>,
                                          hexdigest(EmptyForm(orig[1]))))
        /\ (ids["uuid"][1] = ids["uuid"][2])
             <=> ({orig[1].k, orig[2].k} = {"bytes", "str"})

C10_Witness ==
    /\ BothEmpty /\ Called("uuid")
    /\ orig[1].k = "bytes" /\ orig[2].k = "str"
    /\ ids["uuid"][1] = ids["uuid"][2]
    /\ ids["uuid"][1] # IdNone

(***************************************************************************)
(* Relations between a table and the result of find_edges_connections      *)
(***************************************************************************)
\* the call on df returned a table
Grouped == res.exc = ""

\* a cell that holds no value: None (NaN) or a text that stands for it
Missing(x) == x \in {PyNone, CellNA}

\* the values of a row
Observed(row) == {row[1], row[2]} \ {PyNone, CellNA}

\* the row pairs two values
Paired(row) == Cardinality(Observed(row)) = 2

\* the row holds one value beside a missing cell
Alone(row) == Cardinality(Observed(row)) = 1 /\ (Missing(row[1]) \/ Missing(row[2]))

\* the group_ids of the rows of the result that list v
GroupIds(v) == {res.rows[i].group_id : i \in {j \in 1..Len(res.rows) : res.rows[j].value = v}}

\* the values of df
Cells == UNION {Observed(df[i]) : i \in 1..Len(df)}

(***************************************************************************)
(* Claims about find_edges_connections                                     *)
(***************************************************************************)
\* C11: when one row pairs a with b and another row pairs b with c, the
\* result lists a, b and c with one and the same group_id.
C11_TransitiveGrouping ==
    Grouped =>
        \A i, j \in 1..Len(df) :
            (i # j /\ Paired(df[i]) /\ Paired(df[j]) /\ Observed(df[i]) \cap Observed(df[j]) # {})
                => \E g \in 0..Len(res.rows) :
                       \A v \in Observed(df[i]) \cup Observed(df[j]) : GroupIds(v) = {g}

\* the rows (1, 2) and (2, 8) were grouped: 1, 2 and 8 share a group
C11_Witness ==
    /\ Grouped
    /\ \E i, j \in 1..Len(df) : df[i] = <<Cell1, Cell2>> /\ df[j] = <<Cell2, Cell8>>
    /\ GroupIds(Cell1) = GroupIds(Cell8)
    /\ Cardinality(GroupIds(Cell1)) = 1

\* the rows of the result that list v
RowsOf(v) == {i \in 1..Len(res.rows) : res.rows[i].value = v}

\* the rows of the result of group g
Members(g) == {i \in 1..Len(res.rows) : res.rows[i].group_id = g}

NoEdges == \A i \in 1..Len(df) : Missing(df[i][1]) \/ Missing(df[i][2])

\* C13: when no row holds two values, the result has one row for each
\* distinct value, the rows list the values in ascending order and row i
\* (counted from 0) has group_id i.
C13_SingletonsNumberedInOrder ==
    (Grouped /\ NoEdges) =>
        /\ Len(res.rows) = Cardinality(Cells)
        /\ {res.rows[i].value : i \in 1..Len(res.rows)} = Cells
        /\ \A i \in 1..Len(res.rows) : res.rows[i].group_id = i - 1
        /\ \A i, j \in 1..Len(res.rows) :
              i < j => cell_lt(res.rows[i].value, res.rows[j].value)

\* 8 was added before 1, both alone, and the result numbers 1 before 8
C13_Witness ==
    /\ Grouped
    /\ NoEdges
    /\ Len(df) >= 2
    /\ df[1] = <<Cell8, PyNone>>
    /\ df[2] = <<Cell1, PyNone>>
    /\ res.rows[1] = [group_id |-> 0, value |-> Cell1]
    /\ res.rows[2] = [group_id |-> 1, value |-> Cell8]

\* the values that are alone in a row of df
AloneValues == UNION {Observed(df[i]) : i \in {j \in 1..Len(df) : Alone(df[j])}}

\* the values of the rows of df that hold two values: the vertices
EdgeValues ==
    UNION {Observed(df[i]) : i \in {j \in 1..Len(df) : ~Missing(df[j][1]) /\ ~Missing(df[j][2])}}

\* the singleton candidates that no component holds
Leftover == AloneValues \ EdgeValues

\* the greatest group_id of the rows of the components
MaxComponentId ==
    CHOOSE m \in {res.rows[i].group_id : i \in 1..Len(res.rows)} :
        \A i \in 1..Len(res.rows) :
            res.rows[i].value \notin Leftover => res.rows[i].group_id <= m

\* C14: when the table yields an edge, the singleton candidates no
\* component holds are numbered from the greatest group_id of the components
\* plus one, without a gap, a smaller candidate with a smaller group_id.
C14_LeftoverNumberedAscending ==
    (Grouped /\ ~NoEdges) =>
        /\ \A v \in Leftover : Cardinality(GroupIds(v)) = 1
        /\ UNION {GroupIds(v) : v \in Leftover}
               = (MaxComponentId + 1)..(MaxComponentId + Cardinality(Leftover))
        /\ \A u, v \in Leftover :
              cell_lt(u, v) => \A g \in GroupIds(u), h \in GroupIds(v) : g < h

\* row i of the result is the row of a singleton left over
SingletonRow(i) == res.rows[i].value \in Leftover

\* row i of the result is the row of a component: it is one of several rows
\* of a group, or it lists a value that was in a row of two values and never
\* alone.  (A value that one row pairs with itself and another row holds
\* alone is listed by a row that is neither.)
ComponentRow(i) ==
    \/ Cardinality(Members(res.rows[i].group_id)) > 1
    \/ res.rows[i].value \in EdgeValues \ AloneValues

\* C15: in the result no row of a left-over singleton comes before a row
\* of a component, and the rows of the components have group_ids that start
\* at 0 and never decrease.
C15_ComponentsFirst ==
    Grouped =>
        \A i, j \in 1..Len(res.rows) :
            (i <= j /\ ComponentRow(j))
                => /\ ~SingletonRow(i)
                   /\ res.rows[1].group_id = 0
                   /\ ComponentRow(i) => res.rows[i].group_id <= res.rows[j].group_id

\* the result lists the component of 1 and 2 and then the singleton 3
C15_Witness ==
    /\ Grouped
    /\ Len(res.rows) = 3
    /\ ComponentRow(1)
    /\ ComponentRow(2)
    /\ SingletonRow(3)
    /\ res.rows[3] = [group_id |-> 1, value |-> Cell3]

\* every row of df has both cells missing; df may have no row at all
AllMissing == \A i \in 1..Len(df) : df[i] = <<PyNone, PyNone>>

\* C16: on a table without rows and on a table whose rows all have both
\* cells missing, the call does not raise and returns a table without rows.
C16_EmptyTableEmptyResult == (res # NotCalled /\ AllMissing) => res = returned(<<>>)

\* the call returned on a table of two rows of missing cells
C16_Witness == res = returned(<<>>) /\ AllMissing /\ Len(df) = 2

\* the sets of values that the rows of two values hold together
CoRows ==
    {Observed(df[i]) : i \in {j \in 1..Len(df) : ~Missing(df[j][1]) /\ ~Missing(df[j][2])}}

RECURSIVE Chain(_)
\* the values linked to a value of S by a chain of rows
Chain(S) ==
    IF UNION {e \in CoRows : e \cap S # {}} \subseteq S THEN S
    ELSE Chain(S \cup UNION {e \in CoRows : e \cap S # {}})

\* the connected components of the graph of the rows of two values
Components == {Chain({v}) : v \in EdgeValues}

\* the table [(1, 2), (2, 3), (4, None), (5, None)]
Scenario == DataFrame(<<1, 2, 4, 5>>, <<2, 3, 0, 0>>)

\* the result for Scenario: five rows, one group_id for 1, 2 and 3, one each
\* for 4 and 5, and the group_ids 0, 1 and 2
ScenarioGrouped ==
    /\ Len(res.rows) = 5
    /\ \E g \in 0..2 : \A n \in 1..3 : GroupIds(PyInt(n)) = {g}
    /\ Cardinality(GroupIds(PyInt(4))) = 1
    /\ Cardinality(GroupIds(PyInt(5))) = 1
    /\ Cardinality(GroupIds(PyInt(1)) \cup GroupIds(PyInt(4)) \cup GroupIds(PyInt(5))) = 3
    /\ {res.rows[i].group_id : i \in 1..Len(res.rows)} = {0, 1, 2}

\* C17: the result for the table [(1, 2), (2, 3), (4, None), (5, None)] is
\* ScenarioGrouped, and the result for any table has as many group_ids as
\* the table has components and left-over singletons.
C17_ScenarioAndGroupCount ==
    Grouped =>
        /\ df = Scenario => ScenarioGrouped
        /\ Cardinality({res.rows[i].group_id : i \in 1..Len(res.rows)})
               = Cardinality(Components) + Cardinality(Leftover)

\* the values the rows of group g list
GroupValues(table, g) == {table[i].value : i \in {j \in 1..Len(table) : table[j].group_id = g}}

\* C18: every group of the result is a connected component of at least two
\* values of the graph of the rows of two values, or the one value of a
\* singleton that was alone in a row and is in no component.
C18_GroupsAreComponentsOrSingletons ==
    Grouped =>
        \A i \in 1..Len(res.rows) :
            \/ /\ Cardinality(GroupValues(res.rows, res.rows[i].group_id)) >= 2
               /\ GroupValues(res.rows, res.rows[i].group_id) \in Components
            \/ /\ Cardinality(Members(res.rows[i].group_id)) = 1
               /\ res.rows[i].value \in Leftover

\* C19: the call on the rows of one group of a result returns one group,
\* and its values are the values of that group.
C19_RegroupSameMembers ==
    again.call.exc = "" =>
        /\ Cardinality({again.call.rows[i].group_id : i \in 1..Len(again.call.rows)}) = 1
        /\ values(again.call.rows) = GroupValues(res.rows, again.group_id)

\* C20: the call returns a table whatever the cells of the rows are.
C20_NeverRaises == res # NotCalled => res.exc = ""

\* the groups of a table of group_id and value, as sets of values
Partition(table) == {GroupValues(table, table[i].group_id) : i \in 1..Len(table)}

\* two results group the same values in the same way: the same sets of
\* values, as many group_ids and as many rows
SameGroups(a, b) ==
    /\ Partition(a) = Partition(b)
    /\ Cardinality({a[i].group_id : i \in 1..Len(a)}) = Cardinality({b[i].group_id : i \in 1..Len(b)})
    /\ Len(a) = Len(b)

\* C21: a table with the two cells of one row swapped, or with one row
\* twice, is grouped as the table itself: the call returns on both or on
\* neither, and the groups hold the same values.
C21_SwapAndDuplicateSameGroups ==
    other.call # NotCalled =>
        /\ (other.call.exc = "") = (res.exc = "")
        /\ other.call.exc = "" => SameGroups(res.rows, other.call.rows)

\* the row (None, 2) was swapped to (2, None) beside a row (1, 2), and both
\* calls returned
C21_Witness ==
    /\ Grouped
    /\ other.call.exc = ""
    /\ \E i, j \in 1..Len(df) :
          /\ df[i] = <<PyNone, Cell2>>
          /\ other.df[i] = <<Cell2, PyNone>>
          /\ df[j] = <<Cell1, Cell2>>

(***************************************************************************)
(* Relations of the claims on convert_text_to_key                          *)
(***************************************************************************)
\* the call has returned
KeyCalled == output_str # Unset

\* None, or a text that is empty or of white space only
MissingText(v) == v = PyNone \/ \A i \in 1..Len(v.s) : isspace(v.s[i])

\* a non-empty text of runs of [a-z0-9] joined by single underscores
KeyShape(s) ==
    /\ s # <<>>
    /\ \A i \in 1..Len(s) : s[i] \in (97..122) \cup (48..57) \cup {95}
    /\ s[1] # 95
    /\ s[Len(s)] # 95
    /\ \A i \in 1..(Len(s) - 1) : ~(s[i] = 95 /\ s[i + 1] = 95)

\* C22: convert_text_to_key returns None exactly when its input is None or
\* a text that is empty or of white space only; for every other input it
\* returns a non-empty key of runs of [a-z0-9] joined by single underscores.
C22_NoneExactlyWhenMissing ==
    KeyCalled =>
        /\ (output_str = PyNone) = MissingText(input_str)
        /\ output_str # PyNone => KeyShape(output_str.s)

(***************************************************************************)
(* Further claims                                                          *)
(***************************************************************************)
\* the second build supplies the elements or keys of the nested containers
\* in another order, and the elements of the sequence itself in the same
NestedReordered ==
    /\ IsSeq(orig[1])
    /\ orig[2].k = orig[1].k
    /\ Len(orig[2].e) = Len(orig[1].e)
    /\ \A i \in 1..Len(orig[1].e) : ReorderEq(orig[1].e[i], orig[2].e[i])

\* C23: the elements of a sequence are normalized before the sequence is
\* reordered, so the place of a nested container in the output does not
\* depend on the order in which its own elements or keys were supplied.
C23_NestedOrderIrrelevant ==
    (phase = "std" /\ NestedReordered) => out[1] = out[2]

\* C24: two distinct values have the same group_id in the result only if a
\* chain of rows links them, each row of the chain holding two values; so
\* values of different components, and singletons no component holds, have
\* different group_ids.
C24_SameGroupOnlyIfLinked ==
    Grouped =>
        \A i, j \in 1..Len(res.rows) :
            (/\ res.rows[i].value # res.rows[j].value
             /\ res.rows[i].group_id = res.rows[j].group_id)
                => res.rows[j].value \in Chain({res.rows[i].value})

\* the type of v is not in the Type Rank table
Unranked(v) ==
    v.k \notin {"int", "str", "float", "datetime", "NoneType", "bool", "list", "dict"}

C26_ComparatorAntisymmetric == phase = "cmp" => cmp.r = -cmp.rev

\* C27: the value column of the result holds the values of the table, that
\* is its cells that are not missing, each in exactly one row.
C27_ValuesAreTheCells ==
    Grouped =>
        /\ values(res.rows) = Cells
        /\ \A v \in Cells : Cardinality(RowsOf(v)) = 1

\* b is the content of a as another kind of input: the UTF-8 bytes of the
\* str a, the serialization of the container a, or the tuple of the
\* elements of the list a
OtherKind(a, b) ==
    \/ a.k = "str" /\ b = PyBytes(encode_utf8(a.s))
    \/ IsContainer(a) /\ b = data_standardization(a).ret
    \/ a.k = "list" /\ b = PyTuple(a.e)

\* C28: a str, its UTF-8 bytes and a container whose serialization is that
\* str get the same identifier under the same method, and so do a list and
\* the tuple of the same elements.
C28_KindNotEncoded ==
    \A m \in Methods :
        (Called(m) /\ OtherKind(orig[1], orig[2])) => ids[m][1] = ids[m][2]

\* [2, 1], whose serialization is '[1, 2]', and the str '[1, 2]' got the
\* same uuid and the same digest
C28_Witness ==
    /\ orig[1] = PyList(<<PyInt(2), PyInt(1)>>)
    /\ orig[2] = PyStr(<<91, 49, 44, 32, 50, 93>>)
    /\ ids["uuid"][1].kind = "uuid3"
    /\ ids["uuid"][1] = ids["uuid"][2]
    /\ ids["sha256"][1].kind = "str"
    /\ ids["sha256"][1] = ids["sha256"][2]

(***************************************************************************)
(* Claims about PostgreSQLDatabase                                         *)
(***************************************************************************)
\* the runs of the statement of the last call: none succeeded but, at most,
\* the last one
NoRunAfterSuccess == \A i \in 1..(Len(last.attempts) - 1) : ~last.attempts[i]

\* the last run of the statement of the last call succeeded
LastRunSucceeded == last.attempts # <<>> /\ last.attempts[Len(last.attempts)]

\* insert_batch on data that is not empty: at most two runs, True as soon
\* as a run succeeds, False when both fail, no exception of a run propagated
RetriedOnce ==
    /\ Len(last.attempts) <= 2
    /\ NoRunAfterSuccess
    /\ LastRunSucceeded = (last.ret = "True")
    /\ last.attempts = <<FALSE, FALSE>> => last.ret = "False"
    /\ last.attempts # <<>> => last.ret # "raised"

\* C29: insert_batch on a dict, a list or a DataFrame that is not empty runs
\* the statement at most twice, returns True as soon as a run succeeds and
\* False when both fail, and propagates no exception of a run; on empty
\* data it returns True and runs nothing.
C29_InsertRetriesOnce ==
    last.op = "insert_batch" =>
        /\ last.data \in {"dict", "list", "DataFrame"} => RetriedOnce
        /\ last.data \in {"{}", "[]", "empty DataFrame"}
               => (last.ret = "True" /\ last.attempts = <<>>)

\* the connections opened for the instance that are open
Open == {i \in 1..Len(server) : server[i] = 0}

\* the connection the instance held before the last call, 0 for None
HeldBefore == last.before.self.connection

\* the instance held a connection before the last call and it was closed
HeldClosedBefore == HeldBefore # 0 /\ last.before.server[HeldBefore] # 0

\* the connections the last call opened
OpenedByLast == Len(server) - Len(last.before.server)

\* the first run of the statement of the last insert_batch failed
FirstRunFailed ==
    last.op = "insert_batch" /\ last.attempts # <<>> /\ ~last.attempts[1]

\* C30: at most one connection opened by the instance is open; connect and
\* reconnect have closed the connection held before they open a new one;
\* after close connection and cursor are None; a batch call opens a
\* connection only when the instance holds one that is closed, never when
\* it holds none.
C30_OneOpenConnection ==
    /\ Cardinality(Open) <= 1
    /\ (last.op \in {"connect", "reconnect"} /\ OpenedByLast > 0 /\ HeldBefore # 0)
           => server[HeldBefore] # 0
    /\ last.op = "close" => (self.connection = 0 /\ self.cursor = 0)
    /\ last.op \in {"insert_batch", "update_batch", "delete_batch"} =>
          /\ HeldBefore = 0 => OpenedByLast = 0
          /\ OpenedByLast <= (IF HeldClosedBefore THEN 1 ELSE 0)
                             + (IF FirstRunFailed THEN 1 ELSE 0)

\* the held connection was broken, insert_batch opened a new one after
\* closing it and ran the statement on it: one connection is open
C30_Witness ==
    /\ last.op = "insert_batch"
    /\ last.ret = "True"
    /\ HeldClosedBefore
    /\ OpenedByLast = 1
    /\ Open = {Len(server)}
    /\ self.connection = Len(server)
====
